---------------------------- MODULE Spec2Model ----------------------------
(***************************************************************************)
(* A model of swat/dataframe.py: SASDataFrame, a pandas DataFrame that     *)
(* carries SAS metadata (colinfo, attrs, name, label, title, formatter),   *)
(* its dictionary methods, concat, reshape_bygroups and the helpers        *)
(* split_format and dtype_from_var.                                        *)
(*                                                                         *)
(* Representation.                                                         *)
(*  - A Python str that the code only compares or concatenates is a TLA+   *)
(*    string; a SAS format, which split_format scans, is a sequence of     *)
(*    one-character strings.                                               *)
(*  - An optional value is a sequence of length at most one: None is <<>>  *)
(*    and a value v is <<v>>.                                              *)
(*  - A dict is a function from its keys; dicts live in `heap`, and a      *)
(*    frame holds references into it, so that two frames sharing one dict  *)
(*    can be told from two frames holding equal dicts.                     *)
(*  - A column (and an index level) is [name, data]; data is one tag per   *)
(*    block of rows (pd.concat stacks the blocks of its inputs).           *)
(*  - pandas derives a frame from another through _constructor and         *)
(*    __finalize__, which hands every _metadata attribute of the parent    *)
(*    to the result by reference (the pandas the module was written for).  *)
(***************************************************************************)
EXTENDS Integers, Sequences, FiniteSets, TLC

VARIABLES
    frames,   \* slot -> SASDataFrame object (the program's variables a, b, r)
    heap,     \* reference -> dict (the colinfo and attrs dicts of the frames)
    last,     \* the last call: operation, receiver, arguments, outcome, and the
              \* frames as they were before it
    calls,    \* number of calls made so far
    pure      \* argument and result of the last pure-function call

vars == <<frames, heap, last, calls, pure>>

(***************************************************************************)
(* Bounds of the model.                                                    *)
(***************************************************************************)
MaxFmtLen == 4      \* longest format string handed to split_format
MaxCalls == 3       \* longest chain of reshape_bygroups calls from a constructed frame
MaxFrameCalls == 2  \* longest sequence of dictionary-method and concat calls
MaxRepeats == 2     \* most columns of one name in a frame reshape_bygroups is called on

\* ---------------------------------------------------------------- helpers

None == <<>>
Some(v) == <<v>>

EmptyDict == [k \in {} |-> 0]
DictSet(d, k, v) == [x \in (DOMAIN d) \cup {k} |-> IF x = k THEN v ELSE d[x]]
DictDel(d, k) == [x \in (DOMAIN d) \ {k} |-> d[x]]
\* dict.update(e): the entries of e win
DictUpdate(d, e) == [x \in (DOMAIN d) \cup (DOMAIN e) |-> IF x \in DOMAIN e THEN e[x] ELSE d[x]]

Range(s) == {s[i] : i \in 1..Len(s)}

RECURSIVE SeqsUpTo(_, _)
SeqsUpTo(S, n) ==
    IF n = 0 THEN {<<>>}
    ELSE LET shorter == SeqsUpTo(S, n - 1)
         IN shorter \cup {Append(s, c) : s \in {t \in shorter : Len(t) = n - 1}, c \in S}

\* ------------------------------------------------------------ dtype_from_var

\* The runtime types a By value is drawn from; NoneType is in none of the
\* tuples dtype_from_var tests.
PyTypes == {"int64", "int32", "float64", "text", "binary",
            "datetime", "date", "time", "NoneType"}

\* isinstance(value, cls): datetime.datetime is a subclass of datetime.date.
IsInstance(value, cls) ==
    \/ value.pytype = cls
    \/ value.pytype = "datetime" /\ cls = "date"

dtype_from_var(value) ==
    IF IsInstance(value, "int64") THEN [err |-> "", dtype |-> "int64"]
    ELSE IF IsInstance(value, "int32") THEN [err |-> "", dtype |-> "int32"]
    ELSE IF IsInstance(value, "float64") THEN [err |-> "", dtype |-> "double"]
    ELSE IF IsInstance(value, "text") THEN [err |-> "", dtype |-> "varchar"]
    ELSE IF IsInstance(value, "binary") THEN [err |-> "", dtype |-> "varbinary"]
    ELSE IF IsInstance(value, "datetime") THEN [err |-> "", dtype |-> "datetime"]
    ELSE IF IsInstance(value, "date") THEN [err |-> "", dtype |-> "date"]
    ELSE IF IsInstance(value, "time") THEN [err |-> "", dtype |-> "time"]
    ELSE [err |-> "TypeError", dtype |-> ""]

\* -------------------------------------------------------------- split_format

Digits == <<"0", "1", "2", "3", "4", "5", "6", "7", "8", "9">>
IsDigit(c) == c \in Range(Digits)
DigitVal(c) == (CHOOSE i \in 1..Len(Digits) : Digits[i] = c) - 1

Letters == {"A", "B", "C", "D", "E", "F", "G", "H", "I", "J", "K", "L", "M",
            "N", "O", "P", "Q", "R", "S", "T", "U", "V", "W", "X", "Y", "Z",
            "a", "b", "c", "d", "e", "f", "g", "h", "i", "j", "k", "l", "m",
            "n", "o", "p", "q", "r", "s", "t", "u", "v", "w", "x", "y", "z"}
\* \w
IsWord(c) == c \in Letters \/ IsDigit(c) \/ c = "_"

\* int(s) of a string of digits
RECURSIVE IntOf(_)
IntOf(s) == IF s = <<>> THEN 0 ELSE IntOf(SubSeq(s, 1, Len(s) - 1)) * 10 + DigitVal(s[Len(s)])

\* parts[i] and int(parts[i]) or 0
IntOrZero(s) == IF s = <<>> THEN 0 ELSE IntOf(s)

\* The longest run of characters satisfying a test, from position p on.
RECURSIVE RunEnd(_, _, _)
RunEnd(s, p, digitsOnly) ==
    IF p <= Len(s) /\ (IF digitsOnly THEN IsDigit(s[p]) ELSE IsWord(s[p]))
    THEN RunEnd(s, p + 1, digitsOnly)
    ELSE p

\* re.match(r'(\$)?(\w*?)(\d*)\.(\d*)', fmt): the first match in the order a
\* backtracking matcher tries them, as [found, dollar, name, width, ndec]
\* (the groups as strings). `lazy` is the *? of the name group: the name takes
\* as few characters as a match allows, the width all the digits before the dot.
ReMatch(fmt, lazy) ==
    LET dollar == Len(fmt) >= 1 /\ fmt[1] = "$"
        p == IF dollar THEN 2 ELSE 1
        \* the dot must follow a run of \w characters directly
        q == RunEnd(fmt, p, FALSE)
        found == q <= Len(fmt) /\ fmt[q] = "."
        \* lengths k of the name for which the rest up to the dot is digits
        ks == {k \in 0..(q - p) : \A j \in (p + k)..(q - 1) : IsDigit(fmt[j])}
        k == IF lazy THEN CHOOSE m \in ks : \A n \in ks : m <= n
                     ELSE CHOOSE m \in ks : \A n \in ks : m >= n
        e == RunEnd(fmt, q + 1, TRUE)
    IN  IF ~found
        THEN [found |-> FALSE, dollar |-> FALSE, name |-> <<>>, width |-> <<>>, ndec |-> <<>>]
        ELSE [found |-> TRUE, dollar |-> dollar,
              name |-> SubSeq(fmt, p, p + k - 1),
              width |-> SubSeq(fmt, p + k, q - 1),
              ndec |-> SubSeq(fmt, q + 1, e - 1)]

SASFormat(ischar, name, width, ndec) ==
    [err |-> "", ischar |-> ischar, name |-> name, width |-> width, ndec |-> ndec]

\* split_format(fmt), fmt an optional format string (attrs.get gives None for
\* a missing format). re.match gives None when the pattern does not match, and
\* None has no groups(): AttributeError.
split_format(fmt) ==
    IF fmt = None \/ fmt = Some(<<>>) THEN SASFormat(FALSE, <<>>, 0, 0)
    ELSE LET m == ReMatch(fmt[1], TRUE)
         IN  IF ~m.found
             THEN [err |-> "AttributeError", ischar |-> FALSE, name |-> <<>>, width |-> 0, ndec |-> 0]
             ELSE SASFormat(m.dollar, m.name, IntOrZero(m.width), IntOrZero(m.ndec))

\* ------------------------------------------------------------------ objects

\* SASColumnSpec.__init__ (size and the spec's own attrs dict keep their
\* defaults everywhere in this module and are left out).
SASColumnSpec(name, label, dtype, width, format) ==
    [name |-> name, label |-> label, dtype |-> dtype, width |-> width, format |-> format]

\* SASColumnSpec(col)
DefaultColumnSpec(col) == SASColumnSpec(col, None, None, 0, Some(<<>>))

ColNames(f) == [i \in 1..Len(f.columns) |-> f.columns[i].name]
ColNameSet(f) == {f.columns[i].name : i \in 1..Len(f.columns)}
IndexNames(f) == [i \in 1..Len(f.index) |-> f.index[i].name]
\* len(dframe), in blocks of rows
NumBlocks(f) == Len(f.index[1].data)
\* [value] * len(dframe)
Broadcast(value, f) == [i \in 1..NumBlocks(f) |-> value]
HasDuplicates(s) == \E i, j \in 1..Len(s) : i < j /\ s[i] = s[j]

\* A reference no dict of h is stored under.
NewRef(h) == CHOOSE r \in 1..(Cardinality(DOMAIN h) + 1) : r \notin DOMAIN h
Alloc(h, d) == LET r == NewRef(h) IN [h |-> h @@ (r :> d), ref |-> r]

\* What a caller can observe of a frame.
View(h, f) ==
    [columns |-> f.columns, index |-> f.index,
     colinfo |-> h[f.colinfo], attrs |-> h[f.attrs],
     name |-> f.name, label |-> f.label, title |-> f.title, formatter |-> f.formatter]

\* ------------------------------------------------------------ pandas.DataFrame

\* frame[[k1, k2, ...]]: for every key in turn, every column of that name.
RECURSIVE TakeCols(_, _)
TakeCols(cols, keys) ==
    IF keys = <<>> THEN <<>>
    ELSE SelectSeq(cols, LAMBDA c : c.name = keys[1]) \o TakeCols(cols, Tail(keys))

\* pandas.DataFrame.__getitem__(key). A key is a list of column names, one
\* column name, or a selection of rows (a slice or a boolean mask). The result
\* comes from _constructor(...).__finalize__(self): it holds the parent's
\* metadata by reference. A single name that labels one column gives a Series.
PandasGetItem(f, key) ==
    IF key.kind = "rows" THEN [err |-> "", isframe |-> TRUE, f |-> f]
    ELSE IF \E i \in 1..Len(key.names) : key.names[i] \notin ColNameSet(f)
    THEN [err |-> "KeyError", isframe |-> FALSE, f |-> f]
    ELSE LET taken == [f EXCEPT !.columns = TakeCols(f.columns, key.names)]
         IN  [err |-> "", isframe |-> key.kind = "list" \/ Len(taken.columns) > 1, f |-> taken]

\* pandas.DataFrame.__setitem__(name, value): every column of that name takes
\* the value, or a new last column does.
PandasSetItem(f, name, data) ==
    IF name \in ColNameSet(f)
    THEN [f EXCEPT !.columns = [i \in 1..Len(f.columns) |->
                        IF f.columns[i].name = name
                        THEN [name |-> name, data |-> data] ELSE f.columns[i]]]
    ELSE [f EXCEPT !.columns = Append(f.columns, [name |-> name, data |-> data])]

\* pandas.DataFrame.insert(loc, column, value)
PandasInsert(f, loc, name, data) ==
    IF name \in ColNameSet(f) THEN [err |-> "ValueError", f |-> f]
    ELSE IF loc < 0 \/ loc > Len(f.columns) THEN [err |-> "IndexError", f |-> f]
    ELSE [err |-> "",
          f |-> [f EXCEPT !.columns = SubSeq(f.columns, 1, loc)
                              \o <<[name |-> name, data |-> data]>>
                              \o SubSeq(f.columns, loc + 1, Len(f.columns))]]

\* pandas.DataFrame.pop(item), which has no default parameter: every further
\* positional argument is a TypeError.
PandasPop(f, k, nargs) ==
    IF nargs > 0 THEN [err |-> "TypeError", f |-> f]
    ELSE IF k \notin ColNameSet(f) THEN [err |-> "KeyError", f |-> f]
    ELSE [err |-> "", f |-> [f EXCEPT !.columns = SelectSeq(f.columns, LAMBDA c : c.name # k)]]

\* The column names of the model in sorted order (pandas sorts the union of
\* the inputs' columns when asked to).
NameOrder == <<"A", "B", "C", "D", "X", "X_by", "X_by_by", "X_by_f", "X_f", "Y", "Y_by", "Y_f">>

RECURSIVE FirstSeen(_, _)
\* the names of the frames fs in first-seen order, each once
FirstSeen(names, seen) ==
    IF names = <<>> THEN <<>>
    ELSE IF names[1] \in seen THEN FirstSeen(Tail(names), seen)
    ELSE <<names[1]>> \o FirstSeen(Tail(names), seen \cup {names[1]})

RECURSIVE Flatten(_)
Flatten(ss) == IF ss = <<>> THEN <<>> ELSE ss[1] \o Flatten(Tail(ss))

AllColNames(fs) == Flatten([i \in 1..Len(fs) |-> ColNames(fs[i])])

\* The data of column `name` in pd.concat(fs): the blocks of every input in
\* turn, NaN where an input has no such column.
ConcatData(fs, name) ==
    Flatten([i \in 1..Len(fs) |->
        IF name \in ColNameSet(fs[i])
        THEN (CHOOSE c \in Range(fs[i].columns) : c.name = name).data
        ELSE Broadcast("NaN", fs[i])])

\* The index of pd.concat(fs): level by level when the inputs have as many
\* levels as each other (a level keeps its name when the inputs agree on it),
\* one unnamed level of tuples otherwise.
ConcatIndex(fs) ==
    IF \A i \in 1..Len(fs) : Len(fs[i].index) = Len(fs[1].index)
    THEN [l \in 1..Len(fs[1].index) |->
            [name |-> IF \A i \in 1..Len(fs) : fs[i].index[l].name = fs[1].index[l].name
                      THEN fs[1].index[l].name ELSE "",
             data |-> Flatten([i \in 1..Len(fs) |-> fs[i].index[l].data])]]
    ELSE <<[name |-> "", data |-> Flatten([i \in 1..Len(fs) |-> Broadcast("tuples", fs[i])])]>>

\* pd.concat(objs, **kwargs) along the rows (the default axis and join); sort
\* is the keyword (and, left out, the pandas version) that decides whether the
\* union of the columns is sorted or kept in first-seen order. Inputs whose
\* column labels differ and are not unique cannot be aligned.
PdConcat(fs, sort) ==
    IF \A i \in 1..Len(fs) : ColNames(fs[i]) = ColNames(fs[1])
    THEN [err |-> "",
          columns |-> [c \in 1..Len(fs[1].columns) |->
                          [name |-> fs[1].columns[c].name,
                           data |-> Flatten([i \in 1..Len(fs) |-> fs[i].columns[c].data])]],
          index |-> ConcatIndex(fs)]
    ELSE IF \E i \in 1..Len(fs) : HasDuplicates(ColNames(fs[i]))
    THEN [err |-> "InvalidIndexError", columns |-> <<>>, index |-> <<>>]
    ELSE LET seen == FirstSeen(AllColNames(fs), {})
             order == IF sort THEN SelectSeq(NameOrder, LAMBDA n : n \in Range(seen)) ELSE seen
         IN  [err |-> "",
              columns |-> [c \in 1..Len(order) |->
                              [name |-> order[c], data |-> ConcatData(fs, order[c])]],
              index |-> ConcatIndex(fs)]

\* ---------------------------------------------------------------- SASDataFrame

\* SASDataFrame.__init__(data, name=, label=, title=, formatter=, attrs=,
\* colinfo=): data gives the columns and the index; attrs is an optional
\* reference to a dict, which the frame keeps as it is; colinfo is an optional
\* dict, of which the frame keeps, in a dict of its own, the entries of its
\* columns.
SASDataFrame(h, data, name, label, title, formatter, attrs, colinfo) ==
    LET given == IF colinfo = None THEN EmptyDict ELSE colinfo[1]
        names == {data.columns[i].name : i \in 1..Len(data.columns)}
        ci == Alloc(h, [col \in names \cap DOMAIN given |-> given[col]])
        at == IF attrs = None THEN Alloc(ci.h, EmptyDict) ELSE [h |-> ci.h, ref |-> attrs[1]]
    IN  [h |-> at.h,
         f |-> [columns |-> data.columns, index |-> data.index,
                colinfo |-> ci.ref, attrs |-> at.ref,
                name |-> name, label |-> label, title |-> title,
                formatter |-> IF formatter = None THEN "SASFormatter()" ELSE formatter[1]]]

\* __setitem__ and insert without their loop over the columns
NoBackfill(h, f) == h

\* for col in self.columns: if col not in self.colinfo:
\*     self.colinfo[col] = SASColumnSpec(col)
Backfill(h, f) ==
    LET old == h[f.colinfo]
    IN  [h EXCEPT ![f.colinfo] =
            [col \in (DOMAIN old) \cup ColNameSet(f) |->
                IF col \in DOMAIN old THEN old[col] ELSE DefaultColumnSpec(col)]]

\* SASDataFrame.__setitem__(name, value)
setitem(h, f, name, data) ==
    LET g == PandasSetItem(f, name, data)
    IN  [h |-> Backfill(h, g), f |-> g, err |-> ""]

\* SASDataFrame.insert(loc, column, value): the exception of pandas leaves
\* before the loop over the columns.
insert(h, f, loc, name, data) ==
    LET res == PandasInsert(f, loc, name, data)
    IN  IF res.err # "" THEN [h |-> h, f |-> f, err |-> res.err]
        ELSE [h |-> Backfill(h, res.f), f |-> res.f, err |-> ""]

\* SASDataFrame.pop(k, *args): the colinfo entry goes first, then pandas pops
\* the column.
pop(h, f, k, nargs) ==
    LET h1 == [h EXCEPT ![f.colinfo] = DictDel(h[f.colinfo], k)]
        res == PandasPop(f, k, nargs)
    IN  [h |-> h1, f |-> res.f, err |-> res.err]

\* selfattr itself, not a copy of it
ShareMetadata(h, ref) == [h |-> h, ref |-> ref]

\* selfattr.copy()
CopyMetadata(h, ref) == Alloc(h, h[ref])

\* SASDataFrame.__getitem__(key): a result that is a SASDataFrame takes every
\* _metadata attribute of self, the dicts as copies.
getitem(h, f, key) ==
    LET res == PandasGetItem(f, key)
    IN  IF res.err # "" \/ ~res.isframe
        THEN [h |-> h, f |-> res.f, err |-> res.err, isframe |-> FALSE]
        ELSE LET ci == CopyMetadata(h, f.colinfo)
                 at == CopyMetadata(ci.h, f.attrs)
             IN  [h |-> at.h, err |-> "", isframe |-> TRUE,
                  f |-> [res.f EXCEPT !.colinfo = ci.ref, !.attrs = at.ref,
                                      !.name = f.name, !.label = f.label,
                                      !.title = f.title, !.formatter = f.formatter]]

\* the union of the dicts where the first entry of a key is kept
UpdateNew(ds) ==
    [k \in UNION {DOMAIN ds[i] : i \in 1..Len(ds)} |->
        ds[CHOOSE i \in 1..Len(ds) :
              k \in DOMAIN ds[i] /\ \A j \in 1..(i - 1) : k \notin DOMAIN ds[j]][k]]

RECURSIVE UpdateAll(_)
\* d = {}; for item in objs: d.update(item's dict)
UpdateAll(ds) ==
    IF ds = <<>> THEN EmptyDict
    ELSE DictUpdate(UpdateAll(SubSeq(ds, 1, Len(ds) - 1)), ds[Len(ds)])

\* concat without the closing [list(columns.keys())]
concat_unordered(h, objs, sort) ==
    LET proto == objs[1]
        attrs == UpdateAll([i \in 1..Len(objs) |-> h[objs[i].attrs]])
        colinfo == UpdateAll([i \in 1..Len(objs) |-> h[objs[i].colinfo]])
        body == PdConcat(objs, sort)
    IN  IF body.err # "" THEN [h |-> h, f |-> proto, err |-> body.err, isframe |-> FALSE]
        ELSE LET at == Alloc(h, attrs)
                 made == SASDataFrame(at.h, body, proto.name, proto.label, proto.title,
                                      Some(proto.formatter), Some(at.ref), Some(colinfo))
             IN  [h |-> made.h, f |-> made.f, err |-> "", isframe |-> TRUE]

\* concat(objs, **kwargs), objs SASDataFrames
concat(h, objs, sort) ==
    LET proto == objs[1]
        attrs == UpdateAll([i \in 1..Len(objs) |-> h[objs[i].attrs]])
        colinfo == UpdateAll([i \in 1..Len(objs) |-> h[objs[i].colinfo]])
        columns == FirstSeen(AllColNames(objs), {})
        body == PdConcat(objs, sort)
    IN  IF body.err # "" THEN [h |-> h, f |-> proto, err |-> body.err, isframe |-> FALSE]
        ELSE LET at == Alloc(h, attrs)
                 made == SASDataFrame(at.h, body, proto.name, proto.label, proto.title,
                                      Some(proto.formatter), Some(at.ref), Some(colinfo))
             IN  getitem(made.h, made.f, [kind |-> "list", names |-> columns])

\* ------------------------------------------------------------ reshape_bygroups

\* d.get(k)
DictGet(d, k) == IF k \in DOMAIN d THEN Some(d[k]) ELSE None
\* d.setdefault(k, v)
SetDefault(d, k, v) == IF k \in DOMAIN d THEN d ELSE DictSet(d, k, v)
\* a test that every table passes
AlwaysTruthy(opt) == TRUE

\* the truth value of an optional string
Truthy(opt) == opt # None /\ opt # Some("")

ByKey(i) == "ByVar" \o ToString(i)

\* The number of By variables: ByVar1..ByVarN are keys of attrs, ByVar(N+1) is not.
RECURSIVE CountByVars(_, _)
CountByVars(attrs, i) == IF ByKey(i) \in DOMAIN attrs THEN CountByVars(attrs, i + 1) ELSE i - 1

DefaultIndex(f) == <<[name |-> "", data |-> Broadcast("RangeIndex", f)]>>

\* an index left as it is
KeepIndex(f, numbycols) == [err |-> "", f |-> f]

\* dframe.reset_index(level=list(range(numbycols)), drop=True)
ResetIndex(f, numbycols) ==
    IF numbycols > Len(f.index) THEN [err |-> "IndexError", f |-> f]
    ELSE IF numbycols = Len(f.index) THEN [err |-> "", f |-> [f EXCEPT !.index = DefaultIndex(f)]]
    ELSE [err |-> "", f |-> [f EXCEPT !.index = SubSeq(f.index, numbycols + 1, Len(f.index))]]

\* dframe.iloc[:, :numbycols]
IlocColumns(f, numbycols) ==
    [f EXCEPT !.columns = SubSeq(f.columns, 1, IF numbycols < Len(f.columns)
                                               THEN numbycols ELSE Len(f.columns))]

\* dframe.set_index(pd.Series(data=data, name=name), append=append)
SetIndex(f, name, data, append) ==
    [f EXCEPT !.index = (IF append THEN f.index ELSE <<>>) \o <<[name |-> name, data |-> data]>>]

\* dframe.reorder_levels(order), order a list of level numbers from 0
ReorderLevels(f, order) ==
    IF Len(order) # Len(f.index) THEN [err |-> "AssertionError", f |-> f]
    ELSE [err |-> "", f |-> [f EXCEPT !.index = [l \in 1..Len(order) |-> f.index[order[l] + 1]]]]

\* list(range(lo, hi))
PyRange(lo, hi) == [k \in 1..(IF hi > lo THEN hi - lo ELSE 0) |-> lo + k - 1]

\* bylabel, sasfmt and split_format(sasfmt) of By variable i (lines 900-903
\* and 940-943).
ByVarSpec(attrs, i) ==
    [bylabel |-> DictGet(attrs, ByKey(i) \o "Label"),
     sasfmt |-> DictGet(attrs, ByKey(i) \o "Format"),
     sf |-> split_format(DictGet(attrs, ByKey(i) \o "Format"))]

\* dframe.colinfo[name] = SASColumnSpec(name, label=bylabel, dtype=dt,
\* format=sasfmt, width=sasfmtwidth) on the frame f1 that set_index returned;
\* dt is what dtype_from_var gave, a TypeError included.
LevelAdded(st, f1, name, dt, d) ==
    IF dt.err # "" THEN [st EXCEPT !.f = f1, !.err = dt.err]
    ELSE [h |-> [st.h EXCEPT ![f1.colinfo] =
                    DictSet(@, name, SASColumnSpec(name, d.bylabel, Some(dt.dtype),
                                                   d.sf.width, d.sasfmt))],
          f |-> f1, n |-> st.n + 1, appendlevels |-> TRUE, err |-> ""]

\* dframe = dframe.set_index(pd.Series(data=[value] * len(dframe), name=name),
\* append=appendlevels), then the colinfo entry
AddLevel(st, name, value, dt, d) ==
    LevelAdded(st, SetIndex(st.f, name, Broadcast(value, st.f), st.appendlevels), name, dt, d)

\* Lines 904-913
RawLevel(st, d, byvar, bygroup_columns) ==
    IF bygroup_columns \in {"both", "raw"}
    THEN AddLevel(st, byvar.name, byvar.val.repr, dtype_from_var(byvar.val), d)
    ELSE st

\* Lines 914-925, after the raw part left the state raw
FormattedLevel(raw, d, byvar, bygroup_columns, bygroup_formatted_suffix) ==
    IF raw.err # "" \/ bygroup_columns \notin {"both", "formatted"} THEN raw
    ELSE AddLevel(raw,
                  IF bygroup_columns = "both"
                  THEN byvar.name \o bygroup_formatted_suffix ELSE byvar.name,
                  byvar.valfmt, [err |-> "", dtype |-> "varchar"], d)

\* Lines 903-925, d the label, format and split format of the By variable
IndexLevels(st, d, byvar, bygroup_columns, bygroup_formatted_suffix) ==
    IF d.sf.err # "" THEN [st EXCEPT !.err = d.sf.err]
    ELSE FormattedLevel(RawLevel(st, d, byvar, bygroup_columns), d, byvar,
                        bygroup_columns, bygroup_formatted_suffix)

\* One turn of the loop that builds the By levels of the index (lines 899-926).
\* st is [h, f, n, appendlevels, err]: the heap, dframe, bylevels.
IndexByVar(st, A, i, byvar, bygroup_columns, bygroup_formatted_suffix) ==
    IndexLevels(st, ByVarSpec(st.h[A], i), byvar, bygroup_columns, bygroup_formatted_suffix)

RECURSIVE IndexLoop(_, _, _, _, _, _)
IndexLoop(st, A, i, byvars, bygroup_columns, bygroup_formatted_suffix) ==
    IF i > Len(byvars) \/ st.err # "" THEN st
    ELSE IndexLoop(IndexByVar(st, A, i, byvars[i], bygroup_columns, bygroup_formatted_suffix),
                   A, i + 1, byvars, bygroup_columns, bygroup_formatted_suffix)

\* if byname in allcolnames: byname = byname + bygroup_collision_suffix
CollisionName(byname, allcolnames, bygroup_collision_suffix) ==
    IF byname \in Range(allcolnames) THEN byname \o bygroup_collision_suffix ELSE byname

\* bycols.append(name) and dframe.colinfo[name] = SASColumnSpec(name,
\* label=bylabel, dtype=dt, format=sasfmt, width=sasfmtwidth), on what
\* dframe[name] = value left (s); dt is what dtype_from_var gave, a TypeError
\* included.
ColumnAdded(s, bycols, name, dt, d) ==
    IF dt.err # "" THEN [h |-> s.h, f |-> s.f, bycols |-> bycols, err |-> dt.err]
    ELSE [h |-> [s.h EXCEPT ![s.f.colinfo] =
                    DictSet(@, name, SASColumnSpec(name, d.bylabel, Some(dt.dtype),
                                                   d.sf.width, d.sasfmt))],
          f |-> s.f, bycols |-> bycols, err |-> ""]

\* dframe[name] = value, then bycols and the colinfo entry
AddColumn(st, name, value, dt, d) ==
    ColumnAdded(setitem(st.h, st.f, name, Broadcast(value, st.f)),
                Append(st.bycols, name), name, dt, d)

\* Lines 944-952
RawColumn(st, d, byvar, allcolnames, bygroup_columns, bygroup_collision_suffix) ==
    IF bygroup_columns \in {"both", "raw"}
    THEN AddColumn(st, CollisionName(byvar.name, allcolnames, bygroup_collision_suffix),
                   byvar.val.repr, dtype_from_var(byvar.val), d)
    ELSE st

\* byname at line 958: for 'both' the name the raw part chose, with the
\* formatted suffix and no further test; for 'formatted' the name of the By
\* variable, with the collision suffix when it is in allcolnames.
FormattedName(byvar, allcolnames, bygroup_columns, bygroup_formatted_suffix, bygroup_collision_suffix) ==
    IF bygroup_columns = "both"
    THEN CollisionName(byvar.name, allcolnames, bygroup_collision_suffix)
         \o bygroup_formatted_suffix
    ELSE CollisionName(byvar.name, allcolnames, bygroup_collision_suffix)

\* Lines 953-963, after the raw part left the state raw
FormattedColumn(raw, d, byvar, allcolnames, bygroup_columns, bygroup_formatted_suffix, bygroup_collision_suffix) ==
    IF raw.err # "" \/ bygroup_columns \notin {"both", "formatted"} THEN raw
    ELSE AddColumn(raw,
                   FormattedName(byvar, allcolnames, bygroup_columns,
                                 bygroup_formatted_suffix, bygroup_collision_suffix),
                   byvar.valfmt, [err |-> "", dtype |-> "varchar"], d)

\* Lines 943-963, d the label, format and split format of the By variable
ByColumns(st, d, byvar, allcolnames, bygroup_columns, bygroup_formatted_suffix, bygroup_collision_suffix) ==
    IF d.sf.err # "" THEN [st EXCEPT !.err = d.sf.err]
    ELSE FormattedColumn(RawColumn(st, d, byvar, allcolnames, bygroup_columns,
                                   bygroup_collision_suffix),
                         d, byvar, allcolnames, bygroup_columns,
                         bygroup_formatted_suffix, bygroup_collision_suffix)

\* One turn of the loop that builds the By columns (lines 939-964).
\* st is [h, f, bycols, err]: the heap, dframe, bycols.
ColumnByVar(st, A, i, byvar, allcolnames, bygroup_columns, bygroup_formatted_suffix, bygroup_collision_suffix) ==
    ByColumns(st, ByVarSpec(st.h[A], i), byvar, allcolnames, bygroup_columns,
              bygroup_formatted_suffix, bygroup_collision_suffix)

RECURSIVE ColumnLoop(_, _, _, _, _, _, _, _)
ColumnLoop(st, A, i, byvars, allcolnames, bygroup_columns, bygroup_formatted_suffix, bygroup_collision_suffix) ==
    IF i > Len(byvars) \/ st.err # "" THEN st
    ELSE ColumnLoop(ColumnByVar(st, A, i, byvars[i], allcolnames, bygroup_columns,
                                bygroup_formatted_suffix, bygroup_collision_suffix),
                    A, i + 1, byvars, allcolnames, bygroup_columns,
                    bygroup_formatted_suffix, bygroup_collision_suffix)

\* A short circuit taken on every call, whatever is asked for.
ShortCircuitAlways(attrs, bygroup_columns, bygroup_as_index) == TRUE

\* The short circuit of lines 842-848.
ShortCircuit(attrs, bygroup_columns, bygroup_as_index) ==
    /\ bygroup_columns = attrs["ByGroupColumns"]
    /\ \/ attrs["ByGroupMode"] = "attributes"
       \/ bygroup_as_index /\ attrs["ByGroupMode"] = "index"
       \/ ~bygroup_as_index /\ attrs["ByGroupMode"] = "columns"

\* What the loop of lines 857-873 makes of attrs: the By variables, numbycols,
\* and attrs without the ByVar<i>Formatted keys. A By variable without a Value
\* or a ValueFormatted key is a KeyError.
ScanByVars(attrs) ==
    LET n == CountByVars(attrs, 1)
        complete == \A i \in 1..n : /\ (ByKey(i) \o "Value") \in DOMAIN attrs
                                    /\ (ByKey(i) \o "ValueFormatted") \in DOMAIN attrs
    IN  IF ~complete
        THEN [err |-> "KeyError", byvars |-> <<>>, numbycols |-> 0, attrs |-> attrs]
        ELSE [err |-> "",
              byvars |-> [i \in 1..n |-> [name |-> attrs[ByKey(i)],
                                          val |-> attrs[ByKey(i) \o "Value"],
                                          valfmt |-> attrs[ByKey(i) \o "ValueFormatted"]]],
              numbycols |-> IF attrs["ByGroupColumns"] = "both" THEN 2 * n ELSE n,
              attrs |-> [k \in (DOMAIN attrs) \ {ByKey(i) \o "Formatted" : i \in 1..n}
                            |-> attrs[k]]]

\* Lines 875-881: drop what the current representation materializes.
StripExisting(f, mode, numbycols) ==
    IF mode = "index" THEN ResetIndex(f, numbycols)
    ELSE IF mode = "columns" THEN [err |-> "", f |-> IlocColumns(f, numbycols)]
    ELSE [err |-> "", f |-> f]

\* nlevels = len([x for x in dframe.index.names if x])
NamedLevels(f) == Cardinality({l \in 1..Len(f.index) : f.index[l].name # ""})

\* Lines 928-931, st what the loop left: the By levels go before the nlevels
\* levels that were there.
OrderLevels(nlevels, st) ==
    IF st.err # "" THEN [h |-> st.h, f |-> st.f, err |-> st.err]
    ELSE IF nlevels > 0
    THEN LET ro == ReorderLevels(st.f, PyRange(nlevels, nlevels + st.n) \o PyRange(0, nlevels))
         IN  [h |-> st.h, f |-> ro.f, err |-> ro.err]
    ELSE [h |-> st.h, f |-> st.f, err |-> ""]

\* Lines 892-931: the By variables as levels of the index.
AsIndex(h, dframe, A, byvars, bygroup_columns, bygroup_formatted_suffix) ==
    OrderLevels(NamedLevels(dframe),
                IndexLoop([h |-> h, f |-> dframe, n |-> 0,
                           appendlevels |-> NamedLevels(dframe) > 0, err |-> ""],
                          A, 1, byvars, bygroup_columns, bygroup_formatted_suffix))

\* The frame a __getitem__ call g returned, or its exception.
Outcome(g) == [h |-> g.h, f |-> g.f, err |-> g.err]

\* Line 967, st what the loop left: dframe[bycols + allcolnames]
LeadingByColumns(allcolnames, st) ==
    IF st.err # "" THEN [h |-> st.h, f |-> st.f, err |-> st.err]
    ELSE Outcome(getitem(st.h, st.f, [kind |-> "list", names |-> st.bycols \o allcolnames]))

\* Lines 934-967: the By variables as leading columns.
AsColumns(h, dframe, A, byvars, bygroup_columns, bygroup_formatted_suffix, bygroup_collision_suffix) ==
    LeadingByColumns(ColNames(dframe),
                     ColumnLoop([h |-> h, f |-> dframe, bycols |-> <<>>, err |-> ""],
                                A, 1, byvars, ColNames(dframe), bygroup_columns,
                                bygroup_formatted_suffix, bygroup_collision_suffix))

\* Lines 827-828 on g0, what self[self.columns] returned: dframe with copies
\* of its colinfo and its attrs.
OwnDicts(g0) ==
    LET ci == Alloc(g0.h, g0.h[g0.f.colinfo])
        at == Alloc(ci.h, ci.h[g0.f.attrs])
    IN  [h |-> at.h, f |-> [g0.f EXCEPT !.colinfo = ci.ref, !.attrs = at.ref]]

\* Lines 883-967 on the stripped frame; A is the attrs dict of dframe, which
\* stays its attrs dict through the pandas calls that replace dframe.
Rebuild(h, A, dframe, strip, byvars, bygroup_columns, bygroup_as_index, bygroup_formatted_suffix, bygroup_collision_suffix) ==
    IF strip.err # "" THEN [h |-> h, f |-> dframe, err |-> strip.err]
    ELSE IF bygroup_columns = "none"
    THEN [h |-> [h EXCEPT ![A] = DictSet(DictSet(@, "ByGroupMode", "attributes"),
                                         "ByGroupColumns", "none")],
          f |-> strip.f, err |-> ""]
    ELSE IF bygroup_as_index
    THEN AsIndex([h EXCEPT ![A] = DictSet(DictSet(@, "ByGroupColumns", bygroup_columns),
                                          "ByGroupMode", "index")],
                 strip.f, A, byvars, bygroup_columns, bygroup_formatted_suffix)
    ELSE AsColumns([h EXCEPT ![A] = DictSet(DictSet(@, "ByGroupColumns", bygroup_columns),
                                            "ByGroupMode", "columns")],
                   strip.f, A, byvars, bygroup_columns,
                   bygroup_formatted_suffix, bygroup_collision_suffix)

\* Lines 850-967, scan what the loop over the By variables found, mode the
\* ByGroupMode before the call.
Restructure(h, dframe, scan, mode, bygroup_columns, bygroup_as_index, bygroup_formatted_suffix, bygroup_collision_suffix) ==
    IF scan.err # "" THEN [h |-> h, f |-> dframe, err |-> scan.err]
    ELSE Rebuild([h EXCEPT ![dframe.attrs] = scan.attrs], dframe.attrs, dframe,
                 StripExisting(dframe, mode, scan.numbycols), scan.byvars,
                 bygroup_columns, bygroup_as_index,
                 bygroup_formatted_suffix, bygroup_collision_suffix)

\* Lines 841-967, attrs the attrs of dframe after the two setdefault calls.
FromMode(h, dframe, attrs, bygroup_columns, bygroup_as_index, bygroup_formatted_suffix, bygroup_collision_suffix) ==
    IF ShortCircuit(attrs, bygroup_columns, bygroup_as_index)
    THEN [h |-> [h EXCEPT ![dframe.attrs] = attrs], f |-> dframe, err |-> ""]
    ELSE Restructure([h EXCEPT ![dframe.attrs] = attrs], dframe, ScanByVars(attrs),
                     attrs["ByGroupMode"], bygroup_columns, bygroup_as_index,
                     bygroup_formatted_suffix, bygroup_collision_suffix)

\* Lines 830-967, c the copy of self (heap and frame), hasby the truth of
\* self.attrs.get('ByVar1').
FromCopy(c, hasby, bygroup_columns, bygroup_as_index, bygroup_formatted_suffix, bygroup_collision_suffix) ==
    IF ~hasby THEN [h |-> c.h, f |-> c.f, err |-> ""]
    ELSE FromMode(c.h, c.f,
                  SetDefault(SetDefault(c.h[c.f.attrs], "ByGroupMode", "attributes"),
                             "ByGroupColumns", "none"),
                  bygroup_columns, bygroup_as_index,
                  bygroup_formatted_suffix, bygroup_collision_suffix)

\* reshape_bygroups at work on self itself, dframe = self, not on a copy of it
reshape_bygroups_inplace(h, self, bygroup_columns, bygroup_as_index, bygroup_formatted_suffix, bygroup_collision_suffix) ==
    FromCopy([h |-> h, f |-> self],
             Truthy(DictGet(h[self.attrs], "ByVar1")),
             bygroup_columns, bygroup_as_index,
             bygroup_formatted_suffix, bygroup_collision_suffix)

\* SASDataFrame.reshape_bygroups(bygroup_columns, bygroup_as_index,
\*                               bygroup_formatted_suffix, bygroup_collision_suffix)
\* as [h, f, err]: the heap after the call and the frame returned, or the
\* exception raised.
reshape_bygroups(h, self, bygroup_columns, bygroup_as_index, bygroup_formatted_suffix, bygroup_collision_suffix) ==
    FromCopy(OwnDicts(getitem(h, self, [kind |-> "list", names |-> ColNames(self)])),
             Truthy(DictGet(h[self.attrs], "ByVar1")),
             bygroup_columns, bygroup_as_index,
             bygroup_formatted_suffix, bygroup_collision_suffix)

\* ---------------------------------------------------------------- the program

\* The program's variables, in the order their references are numbered.
SlotOrder == <<"a", "b", "r">>

RefsOf(fr) ==
    Flatten([i \in 1..Len(SlotOrder) |->
        IF SlotOrder[i] \in DOMAIN fr
        THEN <<fr[SlotOrder[i]].colinfo, fr[SlotOrder[i]].attrs>> ELSE <<>>])

PositionIn(seq, x) == CHOOSE i \in 1..Len(seq) : seq[i] = x

\* The dicts no frame refers to any more are freed, and the references are
\* numbered in the order the frames hold them.
Collect(h, fr) ==
    LET live == FirstSeen(RefsOf(fr), {})
    IN  [h |-> [n \in 1..Len(live) |-> h[live[n]]],
         fr |-> [s \in DOMAIN fr |->
                    [fr[s] EXCEPT !.colinfo = PositionIn(live, @),
                                  !.attrs = PositionIn(live, @)]]]

\* Every frame as a caller sees it.
Snapshot == [s \in DOMAIN frames |-> View(heap, frames[s])]

NoCall == [op |-> "init", slot |-> "", args |-> <<>>, err |-> "", out |-> ""]
Brief(l) == [op |-> l.op, slot |-> l.slot, args |-> l.args, err |-> l.err, out |-> l.out]

\* The end of a call on the frame `self` (as the call leaves it): the heap and
\* the frames it leaves, and its record in `last`, with the receiver as it is
\* after the call, the frames as they were before it and the call before it.
Return(h, fr, self, op, slot, args, err, out) ==
    LET c == Collect(h, fr)
    IN  /\ heap' = c.h
        /\ frames' = c.fr
        /\ last' = [op |-> op, slot |-> slot, args |-> args, err |-> err, out |-> out,
                    self |-> View(h, self), pre |-> Snapshot, before |-> Brief(last)]
        /\ calls' = calls + 1
        /\ UNCHANGED pure

\* r = <a frame>
Assign(fr, slot, f) == [s \in (DOMAIN fr) \cup {slot} |-> IF s = slot THEN f ELSE fr[s]]

\* bygroup_formatted_suffix='_f', bygroup_collision_suffix='_by'
FormattedSuffix == "_f"
CollisionSuffix == "_by"

ByGroupColumns == {"none", "raw", "formatted", "both"}

\* The frame the program goes on with: the last result, or the constructed
\* frame while there is none.
Current == IF "r" \in DOMAIN frames THEN "r" ELSE "a"

\* r = res, what s.reshape_bygroups(**args) returned; an exception leaves the
\* frames as they are.
Reshaped(s, args, res) ==
    IF res.err = ""
    THEN Return(res.h, Assign(frames, "r", res.f), frames[s], "reshape", s, args, "", "r")
    ELSE Return(res.h, frames, frames[s], "reshape", s, args, res.err, "")

\* r = s.reshape_bygroups(bygroup_columns=bc, bygroup_as_index=ai), s the
\* current frame
Reshape ==
    /\ calls < MaxCalls
    /\ \A n \in ColNameSet(frames[Current]) :
          Cardinality({i \in 1..Len(frames[Current].columns) :
                          frames[Current].columns[i].name = n}) <= MaxRepeats
    /\ \E bc \in ByGroupColumns, ai \in BOOLEAN :
         Reshaped(Current, [bygroup_columns |-> bc, bygroup_as_index |-> ai],
                  reshape_bygroups(heap, frames[Current], bc, ai,
                                   FormattedSuffix, CollisionSuffix))

\* ----------------------------------------------------- constructed frames

DataColumn(owner, n) == [name |-> n, data |-> <<owner \o "." \o n>>]
\* a level of the index that holds labels; the name "" is no name (None)
IndexLevel(n) == [name |-> n, data |-> <<"labels." \o n>>]
\* the index a frame gets when none is given
RangeIndex == <<[name |-> "", data |-> <<"RangeIndex">>]>>

\* The colinfo a result table of the server comes with: a spec for every
\* column named.
ServerColinfo(names) ==
    [n \in names |-> SASColumnSpec(n, Some(n \o " label"), Some("double"), 8, Some(<<"8", ".", "2">>))]

\* The attrs of By variable i: its name, raw value (a Python value: its type
\* and what it prints as) and formatted value, and, when described, its label
\* and format and the name of its formatted column.
ByVarAttrs(i, name, pytype, described) ==
    (ByKey(i) :> name)
    @@ ((ByKey(i) \o "Value") :> [pytype |-> pytype, repr |-> "raw." \o name])
    @@ ((ByKey(i) \o "ValueFormatted") :> ("fmt." \o name))
    @@ (IF described
        THEN ((ByKey(i) \o "Label") :> (name \o " label"))
             @@ ((ByKey(i) \o "Format") :> <<"$", "C", "H", "A", "R", "1", "2", ".">>)
             @@ ((ByKey(i) \o "Formatted") :> (name \o "_f"))
        ELSE EmptyDict)

TableAttrs == ("Action" :> "summary")

\* The By groups of the frames reshape_bygroups is explored on.
ByGroupChoices ==
    { TableAttrs,
      TableAttrs @@ ByVarAttrs(1, "X", "float64", TRUE),
      TableAttrs @@ ByVarAttrs(1, "X", "NoneType", FALSE),
      TableAttrs @@ ByVarAttrs(1, "X", "float64", FALSE) @@ ByVarAttrs(2, "Y", "text", TRUE),
      TableAttrs @@ ByVarAttrs(1, "X", "text", FALSE) @@ ByVarAttrs(2, "X_by", "int64", FALSE),
      TableAttrs @@ ByVarAttrs(1, "X", "datetime", FALSE) @@ ByVarAttrs(2, "Y", "NoneType", FALSE) }

\* Their data columns and index levels: data columns that do and do not bear
\* the name of a By column, and an index that is the default, named, partly
\* named and unnamed.
ShapeChoices ==
    { [columns |-> <<"A", "B">>, index |-> RangeIndex],
      [columns |-> <<"A", "B">>, index |-> <<IndexLevel("i")>>],
      [columns |-> <<"A", "B">>, index |-> <<IndexLevel("i"), IndexLevel("j")>>],
      [columns |-> <<"A", "B">>, index |-> <<IndexLevel("i"), IndexLevel("")>>],
      [columns |-> <<"A", "B">>, index |-> <<IndexLevel("")>>],
      [columns |-> <<"X", "A">>, index |-> RangeIndex],
      [columns |-> <<"A", "X_f">>, index |-> RangeIndex],
      [columns |-> <<"X", "X_by">>, index |-> RangeIndex] }

\* s = SASDataFrame(data, name=.., label=.., attrs=attrs, colinfo=colinfo), in
\* the program with heap h and frames fr
Construct(h, fr, slot, shape, attrs, colinfo) ==
    LET at == Alloc(h, attrs)
        made == SASDataFrame(at.h,
                             [columns |-> [i \in 1..Len(shape.columns) |->
                                              DataColumn(slot, shape.columns[i])],
                              index |-> shape.index],
                             Some("t" \o slot), Some("Table " \o slot), None, None,
                             Some(at.ref), Some(colinfo))
    IN  Collect(made.h, Assign(fr, slot, made.f))

FirstCall ==
    [op |-> "init", slot |-> "", args |-> <<>>, err |-> "", out |-> "",
     self |-> EmptyDict, pre |-> EmptyDict, before |-> NoCall]

NoPure == [fn |-> "", arg |-> <<>>, res |-> <<>>]

InitReshape ==
    /\ \E shape \in ShapeChoices, attrs \in ByGroupChoices :
         LET c == Construct(<<>>, EmptyDict, "a", shape, attrs, ServerColinfo(Range(shape.columns)))
         IN  frames = c.fr /\ heap = c.h
    /\ last = FirstCall
    /\ calls = 0
    /\ pure = NoPure

NextReshape == Reshape

SpecReshape == InitReshape /\ [][NextReshape]_vars

\* ------------------------------------------------- the dictionary methods

\* s[name] = value
SetItem ==
    /\ calls < MaxFrameCalls
    /\ \E s \in (DOMAIN frames) \cap {"a", "r"}, name \in {"A", "D"} :
         LET res == setitem(heap, frames[s], name, Broadcast("set." \o name, frames[s]))
         IN  Return(res.h, Assign(frames, s, res.f), res.f, "setitem", s,
                    [name |-> name], res.err, "")

\* s.insert(loc, name, value): at the front or past the end
Insert ==
    /\ calls < MaxFrameCalls
    /\ \E s \in (DOMAIN frames) \cap {"a", "r"} :
         \E ins \in {[loc |-> 0, name |-> "A"], [loc |-> 0, name |-> "D"],
                     [loc |-> Len(frames[s].columns) + 1, name |-> "D"]} :
           LET res == insert(heap, frames[s], ins.loc, ins.name,
                             Broadcast("ins." \o ins.name, frames[s]))
           IN  Return(res.h, Assign(frames, s, res.f), res.f, "insert", s, ins, res.err, "")

\* s.pop(k) and s.pop(k, default)
Pop ==
    /\ calls < MaxFrameCalls
    /\ \E s \in (DOMAIN frames) \cap {"a", "r"} :
         \E p \in {[k |-> "A", nargs |-> 0], [k |-> "B", nargs |-> 0],
                   [k |-> "C", nargs |-> 0], [k |-> "A", nargs |-> 1]} :
           LET res == pop(heap, frames[s], p.k, p.nargs)
           IN  Return(res.h, Assign(frames, s, res.f), res.f, "pop", s, p, res.err, "")

GetItemKeys ==
    { [kind |-> "list", names |-> <<"A">>], [kind |-> "list", names |-> <<"B", "A">>],
      [kind |-> "list", names |-> <<"C">>], [kind |-> "name", names |-> <<"A">>],
      [kind |-> "rows", names |-> <<>>] }

\* r = s[key] (a Series is not kept)
GetItem ==
    /\ calls < MaxFrameCalls
    /\ \E s \in (DOMAIN frames) \cap {"a", "r"}, key \in GetItemKeys :
         LET res == getitem(heap, frames[s], key)
         IN  IF res.err = "" /\ res.isframe
             THEN Return(res.h, Assign(frames, "r", res.f), frames[s], "getitem", s, key, "", "r")
             ELSE Return(res.h, frames, frames[s], "getitem", s, key, res.err, "")

\* r = concat([x, y], sort=sort)
Concat ==
    /\ calls < MaxFrameCalls
    /\ \E x \in DOMAIN frames, y \in DOMAIN frames, sort \in BOOLEAN :
         /\ x # y
         /\ LET res == concat(heap, <<frames[x], frames[y]>>, sort)
                args == [objs |-> <<x, y>>, sort |-> sort]
            IN  IF res.err = ""
                THEN Return(res.h, Assign(frames, "r", res.f), frames[x], "concat", x, args, "", "r")
                ELSE Return(res.h, frames, frames[x], "concat", x, args, res.err, "")

\* The colinfo argument a frame is constructed with: specs for these names.
GivenColinfo(names) ==
    [n \in names |-> SASColumnSpec(n, Some(n \o " label"), Some("double"), 8, Some(<<>>))]

InitFrame ==
    /\ \E ca \in {<<"A", "B">>, <<"B", "A">>}, cb \in {<<"B", "C">>},
          ia \in {{"A"}, {"A", "B", "C"}}, ib \in {{}, {"B", "C"}} :
         LET a == Construct(<<>>, EmptyDict, "a", [columns |-> ca, index |-> RangeIndex],
                            ("Action" :> "summary") @@ ("ByGroup" :> "1"), GivenColinfo(ia))
             b == Construct(a.h, a.fr, "b", [columns |-> cb, index |-> RangeIndex],
                            ("Action" :> "freq") @@ ("Total" :> "9"), GivenColinfo(ib))
         IN  frames = b.fr /\ heap = b.h
    /\ last = FirstCall
    /\ calls = 0
    /\ pure = NoPure

NextFrame == SetItem \/ Insert \/ Pop \/ GetItem \/ Concat

SpecFrame == InitFrame /\ [][NextFrame]_vars

\* ------------------------------------------------------ the pure functions

\* The characters format strings are made of: the dollar, a letter, a digit,
\* the dot, and a character that is neither a word character nor the dot.
FormatChars == {"$", "F", "8", ".", "-"}

\* The arguments of split_format: None and every string up to MaxFmtLen.
FormatArgs == {None} \cup {Some(fmt) : fmt \in SeqsUpTo(FormatChars, MaxFmtLen)}

Pending == [err |-> "pending"]

InitPure ==
    /\ frames = EmptyDict
    /\ heap = <<>>
    /\ last = FirstCall
    /\ calls = 0
    /\ \/ \E fmt \in FormatArgs : pure = [fn |-> "split_format", arg |-> fmt, res |-> Pending]
       \/ \E t \in PyTypes :
            pure = [fn |-> "dtype_from_var", arg |-> [pytype |-> t, repr |-> "v"], res |-> Pending]

\* split_format(fmt)
CallSplitFormat ==
    /\ pure.fn = "split_format" /\ pure.res = Pending
    /\ pure' = [pure EXCEPT !.res = split_format(pure.arg)]
    /\ UNCHANGED <<frames, heap, last, calls>>

\* dtype_from_var(value)
CallDtypeFromVar ==
    /\ pure.fn = "dtype_from_var" /\ pure.res = Pending
    /\ pure' = [pure EXCEPT !.res = dtype_from_var(pure.arg)]
    /\ UNCHANGED <<frames, heap, last, calls>>

NextPure == CallSplitFormat \/ CallDtypeFromVar

SpecPure == InitPure /\ [][NextPure]_vars

\* ------------------------------------------------------------------ claims

\* The frame the last call returned, and the frame it was called on as it was
\* before the call.
Result == View(heap, frames["r"])
Receiver == last.pre[last.slot]

Names(columns) == [i \in 1..Len(columns) |-> columns[i].name]

\* The By variables the attrs encode, and what By columns and levels hold.
NumByVars(attrs) == CountByVars(attrs, 1)
ByNames(attrs) == [i \in 1..NumByVars(attrs) |-> attrs[ByKey(i)]]
RawValue(attrs, i) == attrs[ByKey(i) \o "Value"].repr
FormattedValue(attrs, i) == attrs[ByKey(i) \o "ValueFormatted"]
ByValues(attrs) ==
    {RawValue(attrs, i) : i \in 1..NumByVars(attrs)}
    \cup {FormattedValue(attrs, i) : i \in 1..NumByVars(attrs)}
HoldsByValue(column, attrs) == \E i \in 1..Len(column.data) : column.data[i] \in ByValues(attrs)

ModeOf(attrs) == IF "ByGroupMode" \in DOMAIN attrs THEN attrs["ByGroupMode"] ELSE "attributes"

ReshapeDone == last.op = "reshape" /\ last.err = ""
ReshapedTo(bc, ai) ==
    ReshapeDone /\ last.args = [bygroup_columns |-> bc, bygroup_as_index |-> ai]
AfterReshapeTo(bc, ai) ==
    /\ last.before.op = "reshape" /\ last.before.err = ""
    /\ last.before.args = [bygroup_columns |-> bc, bygroup_as_index |-> ai]

\* C1: a table with By variables, in any representation, reshaped to raw
\* columns and then to 'none', is in attributes mode with ByGroupColumns
\* 'none', has no By level in its index, and its columns are exactly the
\* original data columns.
C1_RoundTrip ==
    ( /\ ReshapeDone /\ last.args.bygroup_columns = "none"
      /\ AfterReshapeTo("raw", FALSE)
      /\ "ByVar1" \in DOMAIN Result.attrs )
    => /\ Result.attrs["ByGroupMode"] = "attributes"
       /\ Result.attrs["ByGroupColumns"] = "none"
       /\ \A l \in 1..Len(Result.index) : ~HoldsByValue(Result.index[l], Result.attrs)
       /\ Result.columns = last.pre["a"].columns

\* C2: a second reshape_bygroups call with the target of the first returns a
\* table equal to the first result: columns, index levels, attrs, colinfo keys.
C2_Idempotent ==
    ( /\ ReshapeDone
      /\ AfterReshapeTo(last.args.bygroup_columns, last.args.bygroup_as_index)
      /\ "ByVar1" \in DOMAIN Result.attrs )
    => /\ Result.columns = Receiver.columns
       /\ Result.index = Receiver.index
       /\ Result.attrs = Receiver.attrs
       /\ DOMAIN Result.colinfo = DOMAIN Receiver.colinfo

\* The frame a dictionary method changed in place, as the call left it.
Mutated == last.self
InPlace == last.op \in {"setitem", "insert"} /\ last.err = ""
ConcatDone == last.op = "concat" /\ last.err = ""
Inputs == [i \in 1..Len(last.args.objs) |-> last.pre[last.args.objs[i]]]
Covered(f) == \A i \in 1..Len(f.columns) : f.columns[i].name \in DOMAIN f.colinfo

\* C3: after a column assignment, an insertion or a concat, every column of
\* the resulting table has a colinfo entry.
C3_EveryColumnHasColinfo ==
    /\ InPlace => Covered(Mutated)
    /\ ConcatDone => Covered(Result)

\* C3, as the code has it: after a column assignment or an insertion every
\* column of the table has a colinfo entry; after a concat a column of the
\* result has a colinfo entry exactly when the colinfo of one of the inputs
\* has an entry of that name.
C3_ColinfoAfterMutation ==
    /\ InPlace => Covered(Mutated)
    /\ ConcatDone =>
         \A i \in 1..Len(Result.columns) :
            LET col == Result.columns[i].name
            IN  col \in DOMAIN Result.colinfo
                <=> \E k \in 1..Len(Inputs) : col \in DOMAIN Inputs[k].colinfo

\* An insertion into a table constructed without colinfo for one of its
\* columns has filled that entry in.
C3_Witness ==
    /\ last.op = "insert" /\ last.err = "" /\ last.before.op = "init"
    /\ ~Covered(Receiver)
    /\ Covered(Mutated)

FirstIndex(seq, x) == CHOOSE i \in 1..Len(seq) : seq[i] = x /\ \A j \in 1..(i - 1) : seq[j] # x

\* C5: the columns of concat's result are the union of the inputs' columns,
\* each name once, ordered by first appearance across the inputs in order.
C5_ConcatOrder ==
    ConcatDone =>
        LET seen == Names(Inputs[1].columns) \o Names(Inputs[2].columns)
            got == Names(Result.columns)
        IN  /\ Range(got) = Range(seen)
            /\ ~HasDuplicates(got)
            /\ \A i, j \in 1..Len(got) :
                 i < j => FirstIndex(seen, got[i]) < FirstIndex(seen, got[j])

\* concat([b, a]) with b = [B, C], a = [A, B] gave [B, C, A], and
\* concat([a, b]) with a = [A, B] gave [A, B, C].
C5_Witness ==
    /\ ConcatDone
    /\ \/ /\ Names(Inputs[1].columns) = <<"B", "C">>
          /\ Names(Inputs[2].columns) = <<"A", "B">>
          /\ Names(Result.columns) = <<"B", "C", "A">>
       \/ /\ Names(Inputs[1].columns) = <<"A", "B">>
          /\ Names(Inputs[2].columns) = <<"B", "C">>
          /\ Names(Result.columns) = <<"A", "B", "C">>

\* C7: pop(k) of a column k removes the column and colinfo[k]; pop(k) of a
\* name that is not a column, without default, raises KeyError and leaves
\* the columns and the colinfo of the table as they were.
C7_PopAtomic ==
    (last.op = "pop" /\ last.args.nargs = 0) =>
        LET k == last.args.k
        IN  IF k \in Range(Names(Receiver.columns))
            THEN /\ last.err = ""
                 /\ k \notin Range(Names(Mutated.columns))
                 /\ k \notin DOMAIN Mutated.colinfo
            ELSE /\ last.err = "KeyError"
                 /\ Mutated.columns = Receiver.columns
                 /\ Mutated.colinfo = Receiver.colinfo

\* The dicts of a frame are its own: no other frame holds a reference to them.
OwnsItsDicts(s) ==
    \A t \in (DOMAIN frames) \ {s} :
        {frames[s].colinfo, frames[s].attrs} \cap {frames[t].colinfo, frames[t].attrs} = {}

\* C8: a subset that is a SASDataFrame has the name, label, title and
\* formatter of its parent, and colinfo and attrs dicts of its own that hold
\* the parent's entries; a later change of the colinfo of either leaves the
\* colinfo and the attrs of every other frame as they were.
C8_SubsetOwnsMetadata ==
    /\ (last.op = "getitem" /\ last.err = "" /\ last.out = "r") =>
          /\ Result.colinfo = Receiver.colinfo
          /\ Result.attrs = Receiver.attrs
          /\ Result.name = Receiver.name /\ Result.label = Receiver.label
          /\ Result.title = Receiver.title /\ Result.formatter = Receiver.formatter
          /\ frames["r"].colinfo # frames["r"].attrs
          /\ OwnsItsDicts("r")
    /\ (last.op \in {"setitem", "insert", "pop"}) =>
          \A t \in (DOMAIN frames) \ {last.slot} :
              /\ View(heap, frames[t]).colinfo = last.pre[t].colinfo
              /\ View(heap, frames[t]).attrs = last.pre[t].attrs

\* A subset of a was taken and then one of the two changed its colinfo, so
\* that the two colinfo dicts now differ.
C8_Witness ==
    /\ last.before.op = "getitem" /\ last.before.err = "" /\ last.before.out = "r"
    /\ last.before.slot = "a"
    /\ last.op \in {"setitem", "insert", "pop"}
    /\ Mutated.colinfo # Receiver.colinfo
    /\ Result.colinfo # View(heap, frames["a"]).colinfo

AttributesMode(f) == "ByVar1" \in DOMAIN f.attrs /\ ModeOf(f.attrs) = "attributes"
Constant(column, value) == \A k \in 1..Len(column.data) : column.data[k] = value

\* C4: reshaping an attributes-mode table to raw By columns, for every By
\* variable X that is also the name of a data column: the result has a column
\* X + bygroup_collision_suffix that holds the raw By value, and the column X
\* of the result is the data column X, with the colinfo entry it had.
C4_Collision ==
    (ReshapedTo("raw", FALSE) /\ AttributesMode(Receiver)) =>
        \A i \in 1..NumByVars(Receiver.attrs) :
            LET X == ByNames(Receiver.attrs)[i]
            IN  X \in Range(Names(Receiver.columns)) =>
                  /\ \E c \in 1..Len(Result.columns) :
                        /\ Result.columns[c].name = X \o CollisionSuffix
                        /\ Constant(Result.columns[c], RawValue(Receiver.attrs, i))
                  /\ \E c \in 1..Len(Result.columns) : Result.columns[c].name = X
                  /\ \A c \in 1..Len(Result.columns) :
                        Result.columns[c].name = X
                        => Result.columns[c] \in Range(Receiver.columns)
                  /\ X \in DOMAIN Receiver.colinfo
                     => /\ X \in DOMAIN Result.colinfo
                        /\ Result.colinfo[X] = Receiver.colinfo[X]

\* C6: reshaping an attributes-mode table whose By variables are not names
\* of its columns to formatted By columns: the result has one leading column
\* for each By variable, in ByVar order, named after it, holding its
\* formatted value in every row, with colinfo dtype 'varchar'; then the
\* columns of the table in their order; ByGroupMode is 'columns' and
\* ByGroupColumns is 'formatted'.
C6_FormattedColumns ==
    ( /\ ReshapedTo("formatted", FALSE) /\ AttributesMode(Receiver)
      /\ Range(ByNames(Receiver.attrs)) \cap Range(Names(Receiver.columns)) = {} )
    => LET N == NumByVars(Receiver.attrs)
           by == ByNames(Receiver.attrs)
       IN  /\ Len(Result.columns) = N + Len(Receiver.columns)
           /\ \A i \in 1..N :
                /\ Result.columns[i].name = by[i]
                /\ Len(Result.columns[i].data) = Len(Receiver.index[1].data)
                /\ Constant(Result.columns[i], FormattedValue(Receiver.attrs, i))
                /\ by[i] \in DOMAIN Result.colinfo
                /\ Result.colinfo[by[i]].dtype = Some("varchar")
           /\ \A j \in 1..Len(Receiver.columns) : Result.columns[N + j] = Receiver.columns[j]
           /\ Result.attrs["ByGroupMode"] = "columns"
           /\ Result.attrs["ByGroupColumns"] = "formatted"

\* C9: split_format returns a 4-tuple for every format string, without
\* raising; the empty string gives (False, '', 0, 0).
C9_SplitFormatNeverRaises ==
    (pure.fn = "split_format" /\ pure.res # Pending) =>
        /\ pure.res.err = ""
        /\ pure.arg = Some(<<>>) => pure.res = SASFormat(FALSE, <<>>, 0, 0)

Recognised == {"int64", "int32", "float64", "text", "binary", "datetime", "date", "time"}
Dtypes == {"int64", "int32", "double", "varchar", "varbinary", "datetime", "date", "time"}

\* C10: dtype_from_var gives one of the eight dtypes for a value of a
\* recognised type and raises TypeError for any other; reshape_bygroups on a
\* table with a By value of another type raises TypeError when raw By values
\* are asked for ('raw', 'both') and succeeds when they are not ('formatted',
\* 'none').
C10_TypeError ==
    /\ \A t \in PyTypes :
          LET res == dtype_from_var([pytype |-> t, repr |-> "v"])
          IN  IF t \in Recognised THEN res.err = "" /\ res.dtype \in Dtypes
              ELSE res.err = "TypeError"
    /\ ( /\ last.op = "reshape"
         /\ \E i \in 1..NumByVars(Receiver.attrs) :
               Receiver.attrs[ByKey(i) \o "Value"].pytype \notin Recognised )
       => IF last.args.bygroup_columns \in {"raw", "both"}
          THEN last.err = "TypeError"
          ELSE last.err = ""

\* C11: reshape_bygroups on a table whose attrs have no ByVar1 returns, for
\* every target, a copy: the columns, the index levels, the attrs entries
\* (no ByGroupMode or ByGroupColumns added) and the colinfo entries of the
\* receiver, in dicts of its own.
C11_NoByVarsCopy ==
    (last.op = "reshape" /\ "ByVar1" \notin DOMAIN Receiver.attrs) =>
        /\ last.err = ""
        /\ Result.columns = Receiver.columns
        /\ Result.index = Receiver.index
        /\ Result.attrs = Receiver.attrs
        /\ Result.colinfo = Receiver.colinfo
        /\ OwnsItsDicts("r")

\* A table without By variables and with a two-level index was asked for raw
\* By levels and came back as it was.
C11_Witness ==
    /\ last.op = "reshape" /\ "ByVar1" \notin DOMAIN Receiver.attrs
    /\ last.args = [bygroup_columns |-> "raw", bygroup_as_index |-> TRUE]
    /\ Len(Receiver.index) = 2
    /\ Names(Result.columns) = <<"A", "B">>
    /\ "ByGroupMode" \notin DOMAIN Result.attrs

\* The last of the dicts ds that has the key k.
LastWith(ds, k) == CHOOSE i \in 1..Len(ds) :
    k \in DOMAIN ds[i] /\ \A j \in (i + 1)..Len(ds) : k \notin DOMAIN ds[j]
KeysOf(ds) == UNION {DOMAIN ds[i] : i \in 1..Len(ds)}

\* C12: the result of concat has the name, label, title and formatter of the
\* first input; its attrs are the union of the inputs' attrs and its colinfo
\* the union of the inputs' colinfo restricted to its columns, and where
\* several inputs have a key the entry of the last of them is kept.
C12_ConcatMetadata ==
    ConcatDone =>
        LET attrs == [i \in 1..Len(Inputs) |-> Inputs[i].attrs]
            colinfo == [i \in 1..Len(Inputs) |-> Inputs[i].colinfo]
        IN  /\ Result.name = Inputs[1].name /\ Result.label = Inputs[1].label
            /\ Result.title = Inputs[1].title /\ Result.formatter = Inputs[1].formatter
            /\ DOMAIN Result.attrs = KeysOf(attrs)
            /\ \A k \in KeysOf(attrs) : Result.attrs[k] = attrs[LastWith(attrs, k)][k]
            /\ DOMAIN Result.colinfo = KeysOf(colinfo) \cap Range(Names(Result.columns))
            /\ \A k \in DOMAIN Result.colinfo :
                  Result.colinfo[k] = colinfo[LastWith(colinfo, k)][k]

\* Two tables whose attrs differ in 'Action' and whose colinfo entries for
\* 'B' differ were concatenated, and the entries of the second were kept.
C12_Witness ==
    /\ ConcatDone
    /\ Inputs[1].attrs["Action"] # Inputs[2].attrs["Action"]
    /\ Result.attrs["Action"] = Inputs[2].attrs["Action"]
    /\ "B" \in DOMAIN Inputs[1].colinfo /\ "B" \in DOMAIN Inputs[2].colinfo
    /\ Inputs[1].colinfo["B"] # Inputs[2].colinfo["B"]
    /\ Result.colinfo["B"] = Inputs[2].colinfo["B"]
    /\ Result.name = Inputs[1].name /\ Result.name # Inputs[2].name

\* The table the reshape_bygroups calls started from.
Original == View(heap, frames["a"])
IsDataColumn(c) == ~HoldsByValue(c, Original.attrs)

\* C13: after any sequence of reshape_bygroups calls on a table with By
\* variables that started in attributes mode, the columns of the result that
\* hold no By value are the data columns of that table, in their order.
C13_StripKeepsData ==
    (ReshapeDone /\ "ByVar1" \in DOMAIN Original.attrs) =>
        SelectSeq(Result.columns, IsDataColumn) = Original.columns

\* The By levels (or By columns) a request bc builds for the By variables of
\* attrs on a frame of n row blocks, named as when nothing collides: for each
\* variable in ByVar order the raw one, the formatted one, or both.
ByPart(attrs, i, bc, n) ==
    LET raw == [name |-> attrs[ByKey(i)], data |-> [k \in 1..n |-> RawValue(attrs, i)]]
        fmt == [name |-> IF bc = "both" THEN attrs[ByKey(i)] \o FormattedSuffix
                         ELSE attrs[ByKey(i)],
                data |-> [k \in 1..n |-> FormattedValue(attrs, i)]]
    IN  IF bc = "raw" THEN <<raw>> ELSE IF bc = "formatted" THEN <<fmt>> ELSE <<raw, fmt>>
ByParts(attrs, bc, n) == Flatten([i \in 1..NumByVars(attrs) |-> ByPart(attrs, i, bc, n)])

RowBlocks(f) == Len(f.index[1].data)
HasDefaultIndex(f) == f.index = <<[name |-> "", data |-> [k \in 1..RowBlocks(f) |-> "RangeIndex"]]>>
OwnLevels(f) == IF HasDefaultIndex(f) THEN <<>> ELSE f.index
AllRecognised(attrs) ==
    \A i \in 1..NumByVars(attrs) : attrs[ByKey(i) \o "Value"].pytype \in Recognised

\* C14: reshaping an attributes-mode table to By levels of the index (raw,
\* formatted or both) succeeds, and the index of the result is the By levels
\* in ByVar order followed by every level the index had (a default index has
\* none), in their order, whether they are named or not.
C14_IndexKeepsLevels ==
    ( /\ last.op = "reshape" /\ AttributesMode(Receiver)
      /\ last.args.bygroup_as_index /\ last.args.bygroup_columns # "none"
      /\ last.args.bygroup_columns = "formatted" \/ AllRecognised(Receiver.attrs) )
    => /\ last.err = ""
       /\ Result.index = ByParts(Receiver.attrs, last.args.bygroup_columns, RowBlocks(Receiver))
                         \o OwnLevels(Receiver)

AllNamed(f) == \A l \in 1..Len(OwnLevels(f)) : f.index[l].name # ""

\* The index of f is the By levels of its ByGroupColumns followed by the
\* levels of the table the calls started from.
ByLevelsThenOwn(f) ==
    /\ ModeOf(f.attrs) = "index"
    /\ f.index = ByParts(f.attrs, f.attrs["ByGroupColumns"], RowBlocks(f)) \o OwnLevels(Original)

\* C15: on a table whose index levels are all named (or whose index is the
\* default), a reshape_bygroups call to By levels of the index (raw,
\* formatted or both), made on the table itself or on the result of such a
\* call, returns an index of exactly the N By levels of the request (2N for
\* 'both') followed by the levels of the table: each call strips as many
\* levels as the call before it built.
C15_IndexLevelsBalanced ==
    ( /\ ReshapeDone /\ "ByVar1" \in DOMAIN Original.attrs /\ AllNamed(Original)
      /\ last.args.bygroup_as_index /\ last.args.bygroup_columns # "none"
      /\ \/ last.slot = "a"
         \/ ByLevelsThenOwn(Receiver) )
    => /\ Len(Result.index) = Len(OwnLevels(Original))
            + (IF last.args.bygroup_columns = "both" THEN 2 ELSE 1) * NumByVars(Original.attrs)
       /\ ByLevelsThenOwn(Result)
       /\ Result.attrs["ByGroupColumns"] = last.args.bygroup_columns

\* A table with two By variables and the index levels i and j was given both
\* By levels and then raw By levels: six levels, then four.
C15_Witness ==
    /\ ReshapeDone /\ AfterReshapeTo("both", TRUE)
    /\ last.args = [bygroup_columns |-> "raw", bygroup_as_index |-> TRUE]
    /\ [l \in 1..Len(Receiver.index) |-> Receiver.index[l].name]
         = <<"X", "X_f", "Y", "Y_f", "i", "j">>
    /\ [l \in 1..Len(Result.index) |-> Result.index[l].name] = <<"X", "Y", "i", "j">>

\* The CAS data type of a value of each recognised Python type.
DtypeOf ==
    [t \in Recognised |->
        CASE t = "int64" -> "int64" [] t = "int32" -> "int32" [] t = "float64" -> "double"
          [] t = "text" -> "varchar" [] t = "binary" -> "varbinary"
          [] t = "datetime" -> "datetime" [] t = "date" -> "date" [] t = "time" -> "time"]

\* C16: reshaping an attributes-mode table to both By columns, when no By
\* variable name and no such name with the formatted suffix is a column of
\* the table: the columns of the result are, for each By variable in order,
\* a column of its name holding the raw value and a column of its name plus
\* the suffix holding the formatted value, then the columns of the table in
\* their order; each added column has a colinfo entry, with the dtype of the
\* raw value for the first and 'varchar' for the second.
C16_BothColumns ==
    ( /\ last.op = "reshape" /\ AttributesMode(Receiver)
      /\ last.args = [bygroup_columns |-> "both", bygroup_as_index |-> FALSE]
      /\ AllRecognised(Receiver.attrs)
      /\ \A i \in 1..NumByVars(Receiver.attrs) :
            {ByNames(Receiver.attrs)[i], ByNames(Receiver.attrs)[i] \o FormattedSuffix}
            \cap Range(Names(Receiver.columns)) = {} )
    => /\ last.err = ""
       /\ Result.columns = ByParts(Receiver.attrs, "both", RowBlocks(Receiver))
                           \o Receiver.columns
       /\ \A i \in 1..NumByVars(Receiver.attrs) :
            LET v == ByNames(Receiver.attrs)[i]
            IN  /\ v \in DOMAIN Result.colinfo
                /\ (v \o FormattedSuffix) \in DOMAIN Result.colinfo
                /\ Result.colinfo[v].dtype
                     = Some(DtypeOf[Receiver.attrs[ByKey(i) \o "Value"].pytype])
                /\ Result.colinfo[v \o FormattedSuffix].dtype = Some("varchar")

\* C17: the colinfo of a table holds entries for columns of the table only,
\* after any sequence of construction, column assignment, insertion, pop,
\* column subsetting and concat.
C17_NoStaleColinfo ==
    \A s \in DOMAIN frames :
        DOMAIN View(heap, frames[s]).colinfo \subseteq Range(Names(frames[s].columns))


\* The flags of a table with By variables; a table never reshaped is in
\* attributes mode with no By columns (the defaults of lines 836-839).
FlagsOf(attrs) ==
    [mode |-> ModeOf(attrs),
     columns |-> IF "ByGroupColumns" \in DOMAIN attrs THEN attrs["ByGroupColumns"] ELSE "none"]

\* The table already has the representation asked for.
AlreadyThere(flags, bc, ai) ==
    /\ bc = flags.columns
    /\ \/ flags.mode = "attributes"
       \/ flags.mode = (IF ai THEN "index" ELSE "columns")

\* C18: after a reshape_bygroups call on a table with By variables, the
\* result's ByGroupMode is attributes, index or columns, its ByGroupColumns is
\* none, raw, formatted or both, and the mode is attributes exactly when the
\* columns are none; when the table did not already have the representation
\* asked for, ByGroupColumns is what was asked for and ByGroupMode is index
\* exactly when bygroup_as_index was true and the request was not none.
C18_ModeFlags ==
    (ReshapeDone /\ "ByVar1" \in DOMAIN Receiver.attrs)
    => /\ {"ByGroupMode", "ByGroupColumns"} \subseteq DOMAIN Result.attrs
       /\ Result.attrs["ByGroupMode"] \in {"attributes", "index", "columns"}
       /\ Result.attrs["ByGroupColumns"] \in ByGroupColumns
       /\ Result.attrs["ByGroupMode"] = "attributes" <=> Result.attrs["ByGroupColumns"] = "none"
       /\ ~AlreadyThere(FlagsOf(Receiver.attrs), last.args.bygroup_columns, last.args.bygroup_as_index)
          => /\ Result.attrs["ByGroupColumns"] = last.args.bygroup_columns
             /\ Result.attrs["ByGroupMode"] = "index"
                <=> (last.args.bygroup_as_index /\ last.args.bygroup_columns # "none")

\* A second reshape in a row that was not short-circuited and left the
\* columns mode for the index mode.
C18_Witness ==
    /\ ReshapeDone /\ last.before.op = "reshape" /\ last.before.err = ""
    /\ "ByVar1" \in DOMAIN Receiver.attrs
    /\ FlagsOf(Receiver.attrs).mode = "columns"
    /\ ~AlreadyThere(FlagsOf(Receiver.attrs), last.args.bygroup_columns, last.args.bygroup_as_index)
    /\ Result.attrs["ByGroupMode"] = "index"


\* C19: a reshape_bygroups call, failed or not, leaves the table it is called
\* on as it was: its columns, its index levels, its attrs and its colinfo
\* (and every other table of the program) are after the call what they were
\* before it.
C19_ReceiverUntouched ==
    last.op = "reshape"
    => /\ last.self = Receiver
       /\ \A s \in DOMAIN last.pre :
             (s # last.out) => View(heap, frames[s]) = last.pre[s]

\* A call that failed, and after it a call on the same table that returned a
\* table of other columns, attrs and colinfo.
C19_Witness ==
    /\ ReshapeDone /\ last.before.op = "reshape" /\ last.before.err # ""
    /\ Result.columns # Receiver.columns
    /\ Result.attrs # Receiver.attrs
    /\ Result.colinfo # Receiver.colinfo


\* C20: reshaping an attributes-mode table of distinct column names to By
\* columns (raw, formatted or both, bygroup_as_index false) keeps every
\* column of the table with the data it had, keeps the colinfo entry of every
\* column of the table, and returns a table with no column name twice.
C20_NeverClobbers ==
    ( /\ ReshapeDone /\ ~last.args.bygroup_as_index
      /\ last.args.bygroup_columns \in {"raw", "formatted", "both"}
      /\ AttributesMode(Receiver)
      /\ ~HasDuplicates(Names(Receiver.columns)) )
    => /\ \A c \in 1..Len(Receiver.columns) :
             \E k \in 1..Len(Result.columns) : Result.columns[k] = Receiver.columns[c]
       /\ \A c \in 1..Len(Receiver.columns) :
             LET n == Receiver.columns[c].name
             IN  n \in DOMAIN Receiver.colinfo
                 => n \in DOMAIN Result.colinfo /\ Result.colinfo[n] = Receiver.colinfo[n]
       /\ ~HasDuplicates(Names(Result.columns))

=============================================================================
